---- MODULE Spec2Model ----
(***************************************************************************)
(* The resilient request executor of the Amazing Marvin client, in its two *)
(* implementations: the legacy MarvinClient (client.ts: requestWithRetries *)
(* + makeRequestCore) and the organized client's HttpClient                *)
(* (http-client.ts: requestWithRetries).                                   *)
(*                                                                         *)
(* One executor is constructed from a supplied configuration; calls run on *)
(* it.  A call suspends at three places: while the transport (the injected *)
(* fetch) is pending, while the body parser is pending, and while the      *)
(* backoff delay is pending.  Everything between two suspensions is one    *)
(* action.  The timeout timers are explicit: armed by setTimeout, released *)
(* by clearTimeout, and free to fire whenever they are armed.              *)
(***************************************************************************)
EXTENDS Integers, Sequences, FiniteSets, TLC

VARIABLES
  kind,        \* which executor class is under test: "legacy" or "http"
  config,      \* the MarvinClientConfig handed to the constructor
  client,      \* the executor: not built, constructor threw, or its fields
  req,         \* per call: endpoint and fetch options of the call
  pc,          \* per call: where the call is suspended
  attempt,     \* per call: the loop counter `attempt`
  lastError,   \* per call: the local `lastError`
  resp,        \* per call: the local `response` while the parser runs
  timers,      \* per call: attempts whose setTimeout timer is still armed
  invocations, \* per call: number of transport invocations made (observer)
  delays,      \* per call: the values passed to delay(), in order (observer)
  hist,        \* per call: how each settled attempt ended (observer)
  result,      \* per call: pending, resolved with a value, rejected with an error
  probe,       \* a value whose methods are called directly, and their answers
  sent         \* per call: what each attempt passed to fetch, in order (observer)

vars == <<kind, config, client, req, pc, attempt, lastError, resp, timers,
          invocations, delays, hist, result, probe, sent>>

----------------------------------------------------------------------------
(* Bounds of the model *)

\* largest `retries` a configuration supplies
MaxRetries == 3

\* the calls that may run on the executor
Calls == {"a", "b"}

----------------------------------------------------------------------------
(* Program constants *)

DefaultRetries == 3
DefaultRetryDelay == 1000
LegacyDefaultTimeout == 10000
HttpDefaultTimeout == 30000

DefaultBaseUrl == "https://serv.amazingmarvin.com/api"

----------------------------------------------------------------------------
(* Values *)

\* string | null, a string being its sequence of characters
NullStr == [isNull |-> TRUE]
Str(chars) == [isNull |-> FALSE, chars |-> chars]

\* a partial record: the fields of r that are defined
Has(r, f) == f \in DOMAIN r

\* record spread  { ...a, ...b }: on a key collision the later source wins
Spread(a, b) == [k \in DOMAIN a \cup DOMAIN b |-> IF k \in DOMAIN b THEN b[k] ELSE a[k]]

NoFields == [k \in {} |-> k]

\* an optional field: left out, or supplied with one of vals
Optional(f, vals) == {NoFields} \cup {[k \in {f} |-> v] : v \in vals}

----------------------------------------------------------------------------
(* Error model: MarvinError (errors.ts, and the copy in client.ts) *)

\* new MarvinError({message, status, statusText, endpoint, method, retryAfterMs?});
\* hint is the optional retryAfterMs: {} when undefined, {n} otherwise.
MarvinError(message, status, statusText, endpoint, method, hint) ==
  LET base == [kind |-> "MarvinError", message |-> message, status |-> status,
               statusText |-> statusText, endpoint |-> endpoint, method |-> method]
  IN IF hint = {} THEN base
     ELSE Spread(base, [retryAfterMs |-> CHOOSE n \in hint : TRUE])

isClientError(e) == e.status >= 400 /\ e.status < 500

\* isServerError leaving out status 500 itself
isServerError_Above500(e) == e.status > 500

isServerError(e) == e.status >= 500

isRetryable(e) == isServerError(e) \/ e.status = 0

\* a thrown Error (any subclass): only its message is read
JsError(message) == [kind |-> "Error", message |-> message]

\* a thrown value that is no Error; text is what String(value) gives
NonError(text) == [kind |-> "NonError", text |-> text]

IsMarvinError(x) == x.kind = "MarvinError"

IsError(x) == x.kind \in {"Error", "MarvinError"}

----------------------------------------------------------------------------
(* Retry-After parsing: parseRetryAfter (same text in both executors) *)

Max(a, b) == IF a >= b THEN a ELSE b

Digits == {"0", "1", "2", "3", "4", "5", "6", "7", "8", "9"}

DigitValue(ch) ==
  CASE ch = "0" -> 0 [] ch = "1" -> 1 [] ch = "2" -> 2 [] ch = "3" -> 3
    [] ch = "4" -> 4 [] ch = "5" -> 5 [] ch = "6" -> 6 [] ch = "7" -> 7
    [] ch = "8" -> 8 [] ch = "9" -> 9

RECURSIVE DecimalValue(_)
DecimalValue(chars) ==
  IF chars = <<>> THEN 0
  ELSE 10 * DecimalValue(SubSeq(chars, 1, Len(chars) - 1)) + DigitValue(chars[Len(chars)])

IsDigits(chars) == chars # <<>> /\ \A i \in 1..Len(chars) : chars[i] \in Digits

\* Number(value) on the integer literals (optional sign, decimal digits);
\* {} stands for NaN.  The header values of this model hold no other numeric
\* form (no fraction, exponent, hex or surrounding blanks).
Number(chars) ==
  IF IsDigits(chars) THEN {DecimalValue(chars)}
  ELSE IF chars # <<>> /\ chars[1] = "-" /\ IsDigits(Tail(chars)) THEN {0 - DecimalValue(Tail(chars))}
  ELSE IF chars # <<>> /\ chars[1] = "+" /\ IsDigits(Tail(chars)) THEN {DecimalValue(Tail(chars))}
  ELSE {}

\* the HTTP-date "Thu, 01 Jan 1970 00:00:03 GMT"
DateAt3s ==
  <<"T","h","u",","," ","0","1"," ","J","a","n"," ","1","9","7","0"," ",
    "0","0",":","0","0",":","0","3"," ","G","M","T">>

\* the HTTP-date "Thu, 01 Jan 1970 00:00:00 GMT"
DateAtEpoch ==
  <<"T","h","u",","," ","0","1"," ","J","a","n"," ","1","9","7","0"," ",
    "0","0",":","0","0",":","0","0"," ","G","M","T">>

\* new Date(value).getTime() on the date strings of this model; {} stands for NaN
DateGetTime(chars) ==
  IF chars = DateAt3s THEN {3000}
  ELSE IF chars = DateAtEpoch THEN {0}
  ELSE {}

\* parseRetryAfter without the Math.max(0, ...) clamps
parseRetryAfter_NoClamp(value, now) ==
  IF value.isNull \/ value.chars = <<>> THEN {}
  ELSE LET secs == Number(value.chars)
           dateMs == DateGetTime(value.chars)
       IN IF secs # {} THEN {(CHOOSE n \in secs : TRUE) * 1000}
          ELSE IF dateMs # {} THEN {(CHOOSE d \in dateMs : TRUE) - now}
          ELSE {}

\* value: string | null; now: what Date.now() returns; result: {} for null, {ms} otherwise.
\* Math.floor is the identity on secs * 1000 for the integer literals.
parseRetryAfter(value, now) ==
  IF value.isNull \/ value.chars = <<>> THEN {}
  ELSE LET secs == Number(value.chars)
           dateMs == DateGetTime(value.chars)
       IN IF secs # {} THEN {Max(0, (CHOOSE n \in secs : TRUE) * 1000)}
          ELSE IF dateMs # {} THEN {Max(0, (CHOOSE d \in dateMs : TRUE) - now)}
          ELSE {}

----------------------------------------------------------------------------
(* Construction *)

\* config.f ?? d
Coalesce(cfg, f, d) == IF Has(cfg, f) THEN cfg[f] ELSE d

\* config.f || d, for a numeric field: 0 and undefined are falsy
OrElse(cfg, f, d) == IF Has(cfg, f) /\ cfg[f] # 0 THEN cfg[f] ELSE d

\* !config.apiToken || config.apiToken.trim() === ''   (a token is its characters)
TokenMissing(cfg) ==
  \/ ~Has(cfg, "apiToken")
  \/ \A i \in 1..Len(cfg.apiToken) : cfg.apiToken[i] = " "

Threw(message) == [state |-> "threw", message |-> message]

\* Validate without the test of retries
Validate_AnyRetries(fields) ==
  IF fields.timeout <= 0 THEN Threw("Timeout must be greater than 0")
  ELSE IF fields.retryDelay <= 0 THEN Threw("Retry delay must be greater than 0")
  ELSE fields

\* the validation after the fields are assigned
Validate(fields) ==
  IF fields.timeout <= 0 THEN Threw("Timeout must be greater than 0")
  ELSE IF fields.retries < 0 THEN Threw("Retries must be 0 or greater")
  ELSE IF fields.retryDelay <= 0 THEN Threw("Retry delay must be greater than 0")
  ELSE fields

\* new MarvinClient(config)   (client.ts)
LegacyConstruct(cfg) ==
  IF TokenMissing(cfg) THEN Threw("API token is required and cannot be empty")
  ELSE Validate([state |-> "ready",
                 apiToken |-> cfg.apiToken,
                 baseUrl |-> IF Has(cfg, "baseUrl") /\ cfg.baseUrl # "" THEN cfg.baseUrl
                             ELSE DefaultBaseUrl,
                 timeout |-> Coalesce(cfg, "timeout", LegacyDefaultTimeout),
                 retries |-> Coalesce(cfg, "retries", DefaultRetries),
                 retryDelay |-> Coalesce(cfg, "retryDelay", DefaultRetryDelay)])

\* new HttpClient(config)   (http-client.ts)
HttpConstruct(cfg) ==
  IF TokenMissing(cfg) THEN Threw("API token is required and cannot be empty")
  ELSE Validate([state |-> "ready",
                 apiToken |-> cfg.apiToken,
                 baseUrl |-> IF Has(cfg, "baseUrl") /\ cfg.baseUrl # "" THEN cfg.baseUrl
                             ELSE DefaultBaseUrl,
                 timeout |-> OrElse(cfg, "timeout", HttpDefaultTimeout),
                 retries |-> Coalesce(cfg, "retries", DefaultRetries),
                 retryDelay |-> OrElse(cfg, "retryDelay", DefaultRetryDelay)])

----------------------------------------------------------------------------
(* What the environment can supply *)

\* what Date.now() may return when a Retry-After header is parsed
Times == {1000}

StatusCodes == {200, 302, 404, 429, 500, 503}

StatusTextOf(s) ==
  CASE s = 200 -> "OK" [] s = 302 -> "Found" [] s = 404 -> "Not Found"
    [] s = 429 -> "Too Many Requests" [] s = 500 -> "Internal Server Error"
    [] s = 503 -> "Service Unavailable"

\* a fetch Response: ok is status in 200..299, as fetch sets it
Response(status, headers) ==
  [ok |-> (status >= 200 /\ status <= 299), status |-> status,
   statusText |-> StatusTextOf(status), headers |-> headers]

RetryAfter(chars) == [k \in {"retry-after"} |-> chars]

OkResponses == {Response(200, NoFields)}

ErrResponses ==
  {Response(s, NoFields) : s \in StatusCodes \ {200}}
    \cup {Response(429, RetryAfter(<<"2">>)), Response(429, RetryAfter(<<"0">>)),
          Response(503, RetryAfter(<<"2">>))}

Responses == OkResponses \cup ErrResponses

\* response.headers.get(name): the value, or null when the header is not there
\* (Headers.get ignores case: 'Retry-After' and 'retry-after' name one header)
HeadersGet(response, name) ==
  IF Has(response.headers, name) THEN Str(response.headers[name]) ELSE NullStr

\* what the transport may reject with
AbortError == JsError("This operation was aborted")

TransportFaults ==
  {JsError("Network error"), NonError("boom"),
   MarvinError("Custom server error", 502, "Bad Gateway", "/test", "GET", {}),
   MarvinError("Custom client error", 404, "Not Found", "/test", "GET", {}),
   MarvinError("Slow down", 429, "Too Many Requests", "/test", "GET", {7000})}

\* what response.json() / response.text() may resolve or reject with
Bodies == {"body"}

ParserFaults == {JsError("Unexpected end of JSON input")}

\* the calls the endpoint methods make: endpoint, fetch options, additional headers
Requests == {[endpoint |-> "/trackedItem", options |-> [method |-> "GET"], additionalHeaders |-> NoFields]}

\* options.method || 'GET'
MethodOf(options) == IF Has(options, "method") /\ options.method # "" THEN options.method ELSE "GET"

----------------------------------------------------------------------------
(* Building the request: URL, headers and fetch options *)

\* A header value is written as a sequence, like the token; the fixed values
\* are sequences of one piece.

\* options.headers, an object literal; none when the options carry no headers
OptionHeaders(options) == IF Has(options, "headers") THEN options.headers ELSE NoFields

\* endpoint.replace(/^\//, ''), on the endpoints of this model
StripLeadingSlash(endpoint) ==
  CASE endpoint = "/trackedItem" -> "trackedItem"
    [] endpoint = "/categories" -> "categories"
    [] OTHER -> endpoint

\* makeRequestCore: `${this.baseUrl}${endpoint}`
LegacyUrl(baseUrl, endpoint) == baseUrl \o endpoint

\* HttpClient: `${this.baseUrl}/${endpoint.replace(/^\//, '')}`
HttpUrl(baseUrl, endpoint) == baseUrl \o "/" \o StripLeadingSlash(endpoint)

\* makeRequestCore: the headers object literal
LegacyHeaders(apiToken, additionalHeaders, options) ==
  Spread(Spread([k \in {"Content-Type", "X-API-Token"} |->
                   IF k = "Content-Type" THEN <<"application/json">> ELSE apiToken],
                additionalHeaders),
         OptionHeaders(options))

\* HttpClient.requestWithRetries: the headers object literal
HttpHeaders(apiToken, additionalHeaders) ==
  Spread([k \in {"X-API-Token", "Content-Type", "User-Agent"} |->
            CASE k = "X-API-Token" -> apiToken
              [] k = "Content-Type" -> <<"application/json">>
              [] k = "User-Agent" -> <<"MarvinClient/1.0">>],
         additionalHeaders)

\* what an attempt passes to fetch, but for the abort signal:
\* legacy { ...options, headers }, HttpClient { ...requestOptions } with
\* requestOptions = { ...options, headers }
BuildRequest(k, cl, r) ==
  IF k = "legacy"
  THEN [url |-> LegacyUrl(cl.baseUrl, r.endpoint),
        init |-> Spread(r.options,
                        [headers |-> LegacyHeaders(cl.apiToken, r.additionalHeaders, r.options)])]
  ELSE [url |-> HttpUrl(cl.baseUrl, r.endpoint),
        init |-> Spread(r.options,
                        [headers |-> HttpHeaders(cl.apiToken, r.additionalHeaders)])]

----------------------------------------------------------------------------
(* How a call moves on: the three ways a synchronous stretch can end *)

NoError == [kind |-> "null"]

NoResponse == [kind |-> "none"]

Pending == [state |-> "pending"]

\* the call's promise resolves with v
Resolve(c, v) ==
  /\ pc' = [pc EXCEPT ![c] = "done"]
  /\ result' = [result EXCEPT ![c] = [state |-> "resolved", value |-> v]]
  /\ UNCHANGED delays

\* the call's promise rejects with e (a throw that leaves requestWithRetries)
Reject(c, e) ==
  /\ pc' = [pc EXCEPT ![c] = "done"]
  /\ result' = [result EXCEPT ![c] = [state |-> "rejected", error |-> e]]
  /\ UNCHANGED delays

\* Delay suspending twice in a row before the next attempt
Delay_Twice(c, ms) ==
  /\ pc' = [pc EXCEPT ![c] = "delaying"]
  /\ delays' = [delays EXCEPT ![c] = Append(Append(@, ms), ms)]
  /\ UNCHANGED result

\* await this.delay(ms)
Delay(c, ms) ==
  /\ pc' = [pc EXCEPT ![c] = "delaying"]
  /\ delays' = [delays EXCEPT ![c] = Append(@, ms)]
  /\ UNCHANGED result

\* the attempt that just settled is recorded
Settled(c, entry) == hist' = [hist EXCEPT ![c] = Append(@, entry)]

----------------------------------------------------------------------------
(* Legacy executor: MarvinClient.requestWithRetries / makeRequestCore *)

\* toMarvinError decorating the caught value instead of building a MarvinError
toMarvinError_Decorates(error, endpoint, method) ==
  IF IsMarvinError(error) THEN error
  ELSE [kind |-> "Error", message |-> IF IsError(error) THEN error.message ELSE "Unknown error",
        status |-> 0, statusText |-> "Network Error", endpoint |-> endpoint, method |-> method]

toMarvinError(error, endpoint, method) ==
  IF IsMarvinError(error) THEN error
  ELSE IF IsError(error)
       THEN MarvinError(error.message, 0, "Network Error", endpoint, method, {})
       ELSE MarvinError("Unknown error", 0, "Unknown Error", endpoint, method, {})

\* isNonRetryableClientError without the 429 exemption
isNonRetryableClientError_No429(err) == isClientError(err)

isNonRetryableClientError(err) == isClientError(err) /\ err.status # 429

\* shouldRetry forgetting the transport faults (status 0)
shouldRetry_NoStatusZero(err) == isServerError(err) \/ err.status = 429

shouldRetry(err) == isRetryable(err) \/ err.status = 429

\* waitBeforeRetry with a linear backoff
waitBeforeRetry_Linear(retryDelay, a, err) ==
  IF Has(err, "retryAfterMs") THEN err.retryAfterMs ELSE retryDelay * (a + 1)

\* waitBeforeRetry choosing with || instead of ??: a hint of 0 is dropped
waitBeforeRetry_Truthy(retryDelay, a, err) ==
  IF Has(err, "retryAfterMs") /\ err.retryAfterMs # 0 THEN err.retryAfterMs
  ELSE retryDelay * 2^a

\* the value waitBeforeRetry passes to delay()
waitBeforeRetry(retryDelay, a, err) ==
  IF Has(err, "retryAfterMs") THEN err.retryAfterMs ELSE retryDelay * 2^a

\* CoreFetchCatch labelling a thrown non-Error value like a thrown Error
CoreFetchCatch_OneLabel(error, endpoint, method) ==
  IF IsMarvinError(error) THEN error
  ELSE IF IsError(error)
       THEN MarvinError(error.message, 0, "Network Error", endpoint, method, {})
       ELSE MarvinError("Unknown error", 0, "Network Error", endpoint, method, {})

\* CoreFetchCatch wrapping a thrown MarvinError like any other Error
CoreFetchCatch_Rewraps(error, endpoint, method) ==
  IF IsError(error)
  THEN MarvinError(error.message, 0, "Network Error", endpoint, method, {})
  ELSE MarvinError("Unknown error", 0, "Unknown Error", endpoint, method, {})

\* the catch block of makeRequestCore's fetch: what it throws for a rejected fetch
CoreFetchCatch(error, endpoint, method) ==
  IF IsMarvinError(error) THEN error
  ELSE IF IsError(error)
       THEN MarvinError(error.message, 0, "Network Error", endpoint, method, {})
       ELSE MarvinError("Unknown error", 0, "Unknown Error", endpoint, method, {})

\* what makeRequestCore throws for a response that is not ok
CoreHttpError(response, endpoint, method, now) ==
  MarvinError("HTTP " \o ToString(response.status) \o ": " \o response.statusText,
              response.status, response.statusText, endpoint, method,
              parseRetryAfter(HeadersGet(response, "retry-after"), now))

\* LegacyStops without its two client-error tests: only exhaustion stops the loop
LegacyStops_OnlyExhaustion(err, a, retries) == a = retries

\* LegacyStops with the budget test off by one
LegacyStops_OffByOne(err, a, retries) ==
  isNonRetryableClientError(err) \/ a + 1 = retries \/ ~shouldRetry(err)

\* the stop condition of the catch block of requestWithRetries
LegacyStops(err, a, retries) ==
  isNonRetryableClientError(err) \/ a = retries \/ ~shouldRetry(err)

\* the catch block of requestWithRetries
LegacyCatch(c, caught) ==
  LET err == toMarvinError(caught, req[c].endpoint, MethodOf(req[c].options))
  IN /\ lastError' = [lastError EXCEPT ![c] = err]
     /\ IF LegacyStops(err, attempt[c], client.retries)
        THEN Reject(c, err)
        ELSE Delay(c, waitBeforeRetry(client.retryDelay, attempt[c], err))

\* the throw after the loop
LegacyFallback(c) ==
  IF lastError[c] # NoError THEN lastError[c]
  ELSE MarvinError("Request failed after all retries", 0, "Retry Exhausted",
                   req'[c].endpoint, MethodOf(req'[c].options), {})

----------------------------------------------------------------------------
(* Organized client's executor: HttpClient.requestWithRetries *)

\* the MarvinError built in the try block for a response that is not ok
HttpError(response, endpoint, method, now) ==
  MarvinError("HTTP " \o ToString(response.status) \o ": " \o response.statusText,
              response.status, response.statusText, endpoint, method,
              parseRetryAfter(HeadersGet(response, "retry-after"), now))

\* error.retryAfterMs || this.retryDelay * Math.pow(2, attempt)
HttpRetryAfter(retryDelay, a, error) ==
  IF Has(error, "retryAfterMs") /\ error.retryAfterMs # 0
  THEN error.retryAfterMs
  ELSE retryDelay * 2^a

\* this.retryDelay * Math.pow(2, attempt), in the catch block
HttpRetryDelay(retryDelay, a) == retryDelay * 2^a

\* error instanceof Error ? error : new Error(String(error))
AsError(error) == IF IsError(error) THEN error ELSE JsError(error.text)

\* HttpCatch rethrowing at once what is not a MarvinError
HttpCatch_NoFaultRetry(c, error) ==
  IF IsMarvinError(error)
  THEN /\ lastError' = [lastError EXCEPT ![c] = error]
       /\ IF isClientError(error) /\ error.status # 429 THEN Reject(c, error)
          ELSE IF attempt[c] = client.retries THEN Reject(c, error)
          ELSE Delay(c, HttpRetryDelay(client.retryDelay, attempt[c]))
  ELSE /\ lastError' = [lastError EXCEPT ![c] = AsError(error)]
       /\ Reject(c, AsError(error))

\* the catch block: error is whatever the try block threw
HttpCatch(c, error) ==
  IF IsMarvinError(error)
  THEN /\ lastError' = [lastError EXCEPT ![c] = error]
       /\ IF isClientError(error) /\ error.status # 429 THEN Reject(c, error)
          ELSE IF attempt[c] = client.retries THEN Reject(c, error)
          ELSE Delay(c, HttpRetryDelay(client.retryDelay, attempt[c]))
  ELSE /\ lastError' = [lastError EXCEPT ![c] = AsError(error)]
       /\ IF attempt[c] = client.retries THEN Reject(c, AsError(error))
          ELSE Delay(c, HttpRetryDelay(client.retryDelay, attempt[c]))

\* HttpTryNotOk throwing every HTTP error to the caller at once
HttpTryNotOk_ThrowsAll(c, response, now) ==
  LET error == HttpError(response, req[c].endpoint, MethodOf(req[c].options), now)
  IN /\ lastError' = [lastError EXCEPT ![c] = error]
     /\ Reject(c, error)

\* the try block from "Handle HTTP errors" on, for a response that is not ok
HttpTryNotOk(c, response, now) ==
  LET error == HttpError(response, req[c].endpoint, MethodOf(req[c].options), now)
  IN IF isClientError(error) /\ response.status # 429 THEN HttpCatch(c, error)
     ELSE IF attempt[c] = client.retries THEN HttpCatch(c, error)
     ELSE /\ lastError' = [lastError EXCEPT ![c] = error]
          /\ Delay(c, HttpRetryAfter(client.retryDelay, attempt[c], error))

\* the throw after the loop
HttpFallback(c) ==
  IF lastError[c] # NoError THEN lastError[c]
  ELSE JsError("Request failed after all retry attempts")

----------------------------------------------------------------------------
(* The state machine *)

Token == <<"t", "o", "k">>

RetryDelays == {100}

\* the configurations the calls are run under
RunConfigs ==
  {[apiToken |-> Token, retries |-> r, retryDelay |-> d] :
     r \in (0 - 1)..MaxRetries, d \in RetryDelays}

NoRequest == [endpoint |-> "", options |-> NoFields, additionalHeaders |-> NoFields]

\* before the constructor runs; callers are the calls that will be made
InitWith(configs, callers) ==
  /\ kind \in {"legacy", "http"}
  /\ config \in configs
  /\ client = [state |-> "none"]
  /\ req = [c \in Calls |-> NoRequest]
  /\ pc = [c \in Calls |-> IF c \in callers THEN "idle" ELSE "off"]
  /\ attempt = [c \in Calls |-> 0]
  /\ lastError = [c \in Calls |-> NoError]
  /\ resp = [c \in Calls |-> NoResponse]
  /\ timers = [c \in Calls |-> {}]
  /\ invocations = [c \in Calls |-> 0]
  /\ delays = [c \in Calls |-> <<>>]
  /\ hist = [c \in Calls |-> <<>>]
  /\ result = [c \in Calls |-> Pending]
  /\ sent = [c \in Calls |-> <<>>]

\* no value is under direct examination
NoProbe == [of |-> "nothing"]

Init == InitWith(RunConfigs, {"a"}) /\ probe = NoProbe

\* new MarvinClient(config) / new HttpClient(config)
Construct ==
  /\ client.state = "none"
  /\ client' = IF kind = "legacy" THEN LegacyConstruct(config) ELSE HttpConstruct(config)
  /\ UNCHANGED <<sent, probe, kind, config, req, pc, attempt, lastError, resp,
                 timers, invocations, delays, hist, result>>

\* FetchArgs telling the server, in a header, that the attempt is a retry
FetchArgs_MarksRetries(r, a) ==
  IF a = 0 THEN BuildRequest(kind, client, r)
  ELSE [BuildRequest(kind, client, r) EXCEPT
          !.init.headers = Spread(@, [k \in {"X-Retry"} |-> <<"1">>])]

\* the arguments of the fetch of attempt a of a call making request r
FetchArgs(r, a) == BuildRequest(kind, client, r)

\* LoopHead with the counter kept on the executor, one for all its calls,
\* instead of in a local of the call
LoopHead_SharedCounter(c, a) ==
  /\ attempt' = [o \in Calls |-> a]
  /\ IF a <= client.retries
     THEN /\ timers' = [timers EXCEPT ![c] = @ \cup {a}]
          /\ invocations' = [invocations EXCEPT ![c] = @ + 1]
          /\ sent' = [sent EXCEPT ![c] = Append(@, FetchArgs(req'[c], a))]
          /\ pc' = [pc EXCEPT ![c] = "fetching"]
          /\ UNCHANGED <<result, delays>>
     ELSE /\ Reject(c, IF kind = "legacy" THEN LegacyFallback(c) ELSE HttpFallback(c))
          /\ UNCHANGED <<timers, invocations, sent>>

\* the loop test `attempt <= this.retries` with attempt = a, and what follows it
\* synchronously: the attempt's setTimeout and fetch, or the throw after the loop
LoopHead(c, a) ==
  /\ attempt' = [attempt EXCEPT ![c] = a]
  /\ IF a <= client.retries
     THEN /\ timers' = [timers EXCEPT ![c] = @ \cup {a}]
          /\ invocations' = [invocations EXCEPT ![c] = @ + 1]
          /\ sent' = [sent EXCEPT ![c] = Append(@, FetchArgs(req'[c], a))]
          /\ pc' = [pc EXCEPT ![c] = "fetching"]
          /\ UNCHANGED <<result, delays>>
     ELSE /\ Reject(c, IF kind = "legacy" THEN LegacyFallback(c) ELSE HttpFallback(c))
          /\ UNCHANGED <<timers, invocations, sent>>

\* an endpoint method calls requestWithRetries
Call(c) ==
  /\ client.state = "ready"
  /\ pc[c] = "idle"
  /\ \E r \in Requests : req' = [req EXCEPT ![c] = r]
  /\ LoopHead(c, 0)
  /\ UNCHANGED <<probe, kind, config, client, lastError, resp, hist>>

\* FetchResolves without its clearTimeout: the timer stays armed while the
\* body is parsed or the Failure is built
FetchResolves_KeepsTimer(c) ==
  /\ pc[c] = "fetching"
  /\ \E response \in Responses, now \in Times :
       /\ timers' = timers
       /\ IF response.ok
          THEN /\ pc' = [pc EXCEPT ![c] = "parsing"]
               /\ resp' = [resp EXCEPT ![c] = response]
               /\ UNCHANGED <<lastError, delays, result, hist>>
          ELSE /\ Settled(c, [kind |-> "response", response |-> response, now |-> now])
               /\ IF kind = "legacy"
                  THEN LegacyCatch(c, CoreHttpError(response, req[c].endpoint,
                                                    MethodOf(req[c].options), now))
                  ELSE HttpTryNotOk(c, response, now)
               /\ UNCHANGED resp
  /\ UNCHANGED <<sent, probe, kind, config, client, req, attempt, invocations>>

\* the pending fetch resolves with a response
FetchResolves(c) ==
  /\ pc[c] = "fetching"
  /\ \E response \in Responses, now \in Times :
       /\ timers' = [timers EXCEPT ![c] = @ \ {attempt[c]}]
       /\ IF response.ok
          THEN /\ pc' = [pc EXCEPT ![c] = "parsing"]
               /\ resp' = [resp EXCEPT ![c] = response]
               /\ UNCHANGED <<lastError, delays, result, hist>>
          ELSE /\ Settled(c, [kind |-> "response", response |-> response, now |-> now])
               /\ IF kind = "legacy"
                  THEN LegacyCatch(c, CoreHttpError(response, req[c].endpoint,
                                                    MethodOf(req[c].options), now))
                  ELSE HttpTryNotOk(c, response, now)
               /\ UNCHANGED resp
  /\ UNCHANGED <<sent, probe, kind, config, client, req, attempt, invocations>>

\* what both executors do with a fetch that rejected with fault
OnFetchRejected(c, fault) ==
  IF kind = "legacy"
  THEN LegacyCatch(c, CoreFetchCatch(fault, req[c].endpoint, MethodOf(req[c].options)))
  ELSE HttpCatch(c, fault)

\* FetchRejects without the legacy `finally`: a rejected fetch leaves its timer armed
FetchRejects_NoFinally(c) ==
  /\ pc[c] = "fetching"
  /\ \E fault \in TransportFaults :
       /\ Settled(c, [kind |-> "reject", fault |-> fault])
       /\ OnFetchRejected(c, fault)
  /\ timers' = timers
  /\ UNCHANGED <<sent, probe, kind, config, client, req, attempt, resp, invocations>>

\* the pending fetch rejects; the legacy `finally` releases the timer, the
\* organized client's clearTimeout is skipped by the throw
FetchRejects(c) ==
  /\ pc[c] = "fetching"
  /\ \E fault \in TransportFaults :
       /\ Settled(c, [kind |-> "reject", fault |-> fault])
       /\ OnFetchRejected(c, fault)
  /\ timers' = IF kind = "legacy" THEN [timers EXCEPT ![c] = @ \ {attempt[c]}] ELSE timers
  /\ UNCHANGED <<sent, probe, kind, config, client, req, attempt, resp, invocations>>

\* an armed timer fires: controller.abort().  It rejects the fetch that is
\* pending under its signal and does nothing to an attempt that has settled.
TimerFires(c) ==
  /\ \E a \in timers[c] :
       /\ timers' = [timers EXCEPT ![c] = @ \ {a}]
       /\ IF pc[c] = "fetching" /\ a = attempt[c]
          THEN /\ Settled(c, [kind |-> "timeout"])
               /\ OnFetchRejected(c, AbortError)
          ELSE UNCHANGED <<pc, result, delays, lastError, hist>>
  /\ UNCHANGED <<sent, probe, kind, config, client, req, attempt, resp, invocations>>

\* the parser (response.json() / response.text()) resolves
ParserReturns(c) ==
  /\ pc[c] = "parsing"
  /\ \E v \in Bodies :
       /\ Settled(c, [kind |-> "parsed", response |-> resp[c], value |-> v])
       /\ Resolve(c, v)
  /\ resp' = [resp EXCEPT ![c] = NoResponse]
  /\ UNCHANGED <<sent, probe, kind, config, client, req, attempt, lastError, timers, invocations>>

\* the parser rejects: the throw is caught by the catch block around the attempt
ParserThrows(c) ==
  /\ pc[c] = "parsing"
  /\ \E fault \in ParserFaults :
       /\ Settled(c, [kind |-> "parseThrow", response |-> resp[c], fault |-> fault])
       /\ IF kind = "legacy" THEN LegacyCatch(c, fault) ELSE HttpCatch(c, fault)
  /\ resp' = [resp EXCEPT ![c] = NoResponse]
  /\ UNCHANGED <<sent, probe, kind, config, client, req, attempt, timers, invocations>>

\* DelayElapses without the attempt++ of the for statement
DelayElapses_SameAttempt(c) ==
  /\ pc[c] = "delaying"
  /\ UNCHANGED <<probe, kind, config, client, req, lastError, resp, hist>>
  /\ LoopHead(c, attempt[c])

\* the backoff delay elapses: attempt++ and the loop test
DelayElapses(c) ==
  /\ pc[c] = "delaying"
  /\ UNCHANGED <<probe, kind, config, client, req, lastError, resp, hist>>
  /\ LoopHead(c, attempt[c] + 1)

Next ==
  \/ Construct
  \/ \E c \in Calls : Call(c)
  \/ \E c \in Calls : FetchResolves(c)
  \/ \E c \in Calls : FetchRejects(c)
  \/ \E c \in Calls : TimerFires(c)
  \/ \E c \in Calls : ParserReturns(c)
  \/ \E c \in Calls : ParserThrows(c)
  \/ \E c \in Calls : DelayElapses(c)

Spec == Init /\ [][Next]_vars

\* the pending fetch settles: it resolves, rejects, or is aborted by its timer
FetchSettles(c) == FetchResolves(c) \/ FetchRejects(c) \/ TimerFires(c)

\* the pending parser settles
ParserSettles(c) == ParserReturns(c) \/ ParserThrows(c)

\* the environment keeps its promises: a pending fetch settles or is aborted,
\* a pending parser settles, a pending delay (a setTimeout) elapses
Fairness ==
  \A c \in Calls :
    /\ WF_vars(FetchSettles(c))
    /\ WF_vars(ParserSettles(c))
    /\ WF_vars(DelayElapses(c))

SpecFair == Init /\ [][Next]_vars /\ Fairness

TypeOK ==
  /\ kind \in {"legacy", "http"}
  /\ \A c \in Calls :
       /\ pc[c] \in {"off", "idle", "fetching", "parsing", "delaying", "done"}
       /\ attempt[c] \in 0..(MaxRetries + 1)
       /\ invocations[c] \in 0..(MaxRetries + 1)
       /\ result[c].state \in {"pending", "resolved", "rejected"}

----------------------------------------------------------------------------
(* Endpoint methods built on the executor *)

\* the JavaScript value null, as a resolved value
Null == "null"

\* message.includes('Unexpected end of JSON input'), over the messages the
\* environment produces: the only one containing the text is the text itself
IncludesEndOfJson(message) == message = "Unexpected end of JSON input"

\* getTrackedItem catching every Error, whatever its message
getTrackedItem_CatchesAll(outcome) ==
  IF outcome.state = "rejected" /\ IsError(outcome.error)
  THEN [state |-> "resolved", value |-> Null]
  ELSE outcome

\* getTrackedItem(): how its promise settles, given how the GET /trackedItem
\* it awaits settled
getTrackedItem(outcome) ==
  IF /\ outcome.state = "rejected"
     /\ IsError(outcome.error)
     /\ IncludesEndOfJson(outcome.error.message)
  THEN [state |-> "resolved", value |-> Null]
  ELSE outcome

----------------------------------------------------------------------------
(* Two calls in flight on one executor *)

\* the configuration the concurrent calls run under: one retry
ConcConfigs == {[apiToken |-> Token, retries |-> 1, retryDelay |-> d] : d \in RetryDelays}

InitConc == InitWith(ConcConfigs, Calls) /\ probe = NoProbe

SpecConc == InitConc /\ [][Next]_vars

----------------------------------------------------------------------------
(* The category and project helpers on their own: getOnlyCategories and
   getOnlyProjects, the same text in MarvinClient and OrganizationApi *)

\* longest list getCategories returns
MaxItems == 3

\* items.filter(callback): the items the callback answers true for, in order;
\* the callback is given as the set of items it answers true for
RECURSIVE filter(_, _)
filter(items, kept) ==
  IF items = <<>> THEN <<>>
  ELSE IF Head(items) \in kept THEN <<Head(items)>> \o filter(Tail(items), kept)
  ELSE filter(Tail(items), kept)

\* the items of a list
Range(list) == {list[i] : i \in 1..Len(list)}

\* item.type === 'project'   (type is optional: categories may carry none)
IsProject(item) == Has(item, "type") /\ item.type = "project"

\* getOnlyCategories keeping only the items typed 'category'
getOnlyCategories_TypedOnly(list) ==
  filter(list, {item \in Range(list) : Has(item, "type") /\ item.type = "category"})

\* getOnlyCategories(), given what its getCategories() resolved to
getOnlyCategories(list) ==
  filter(list, {item \in Range(list) : ~IsProject(item)})

\* getOnlyProjects(), given what its getCategories() resolved to
getOnlyProjects(list) ==
  filter(list, {item \in Range(list) : IsProject(item)})

\* the items the API returns: with no type, typed 'project', typed 'category'
Items ==
  {[_id |-> i] : i \in {"x", "y"}}
    \cup {[_id |-> i, type |-> t] : i \in {"x", "y"}, t \in {"project", "category"}}

Lists == UNION {[1..n -> Items] : n \in 0..MaxItems}

InitLists ==
  /\ InitWith({[apiToken |-> Token]}, {})
  /\ probe \in {[of |-> "categories", list |-> l] : l \in Lists}

\* a helper is called on the list and its result is kept
CallOnlyProjects ==
  /\ probe.of = "categories"
  /\ ~Has(probe, "projects")
  /\ probe' = Spread(probe, [projects |-> getOnlyProjects(probe.list)])
  /\ UNCHANGED <<sent, kind, config, client, req, pc, attempt, lastError, resp, timers,
                 invocations, delays, hist, result>>

CallOnlyCategories ==
  /\ probe.of = "categories"
  /\ ~Has(probe, "categories")
  /\ probe' = Spread(probe, [categories |-> getOnlyCategories(probe.list)])
  /\ UNCHANGED <<sent, kind, config, client, req, pc, attempt, lastError, resp, timers,
                 invocations, delays, hist, result>>

NextLists == CallOnlyProjects \/ CallOnlyCategories

SpecLists == InitLists /\ [][NextLists]_vars

----------------------------------------------------------------------------
(* Building the request on its own: every shape of headers a caller passes *)

\* every record over a subset of the keys of values, key k holding values[k]
PartsOf(values) == {[k \in keys |-> values[k]] : keys \in SUBSET DOMAIN values}

\* the additionalHeaders an endpoint method may pass
AdditionalHeaderSets ==
  PartsOf([k \in {"Content-Type", "X-Extra"} |->
             IF k = "Content-Type" THEN <<"text/plain">> ELSE <<"additional">>])

\* the headers a caller of request() may put in the fetch options
OptionHeaderSets ==
  PartsOf([k \in {"Content-Type", "X-Extra", "X-Own"} |->
             IF k = "Content-Type" THEN <<"text/html">> ELSE <<"option">>])

\* the fetch options: method and headers both optional
OptionSets ==
  {Spread(m, h) : m \in Optional("method", {"GET", "POST"}),
                  h \in Optional("headers", OptionHeaderSets)}

HeaderRequests ==
  {[endpoint |-> "/categories", options |-> o, additionalHeaders |-> a] :
     o \in OptionSets, a \in AdditionalHeaderSets}

InitHeaders ==
  /\ InitWith({[apiToken |-> Token]}, {})
  /\ probe \in {[of |-> "request", request |-> r] : r \in HeaderRequests}

\* request(endpoint, options, additionalHeaders) up to its first fetch
BuildsRequest ==
  /\ client.state = "ready"
  /\ probe.of = "request"
  /\ ~Has(probe, "fetched")
  /\ probe' = Spread(probe, [fetched |-> FetchArgs(probe.request, 0)])
  /\ UNCHANGED <<sent, kind, config, client, req, pc, attempt, lastError, resp, timers,
                 invocations, delays, hist, result>>

NextHeaders == Construct \/ BuildsRequest

SpecHeaders == InitHeaders /\ [][NextHeaders]_vars

----------------------------------------------------------------------------
(* Building a Failure on its own: every shape of Retry-After header *)

\* Retry-After values a server may send: empty, seconds (plain, padded,
\* signed), a word, two HTTP-dates
HeaderValues ==
  {<<>>, <<"0">>, <<"3">>, <<"0", "3">>, <<"-", "3">>, <<"-", "0">>, <<"+", "3">>,
   <<"s", "o", "o", "n">>, DateAt3s, DateAtEpoch}

\* responses that are not ok, without and with a Retry-After header
HintResponses ==
  {Response(s, h) : s \in {429, 503},
                    h \in {NoFields} \cup {RetryAfter(v) : v \in HeaderValues}}

\* what Date.now() returns when the header is parsed: before and after 00:00:03
HintTimes == {1000, 5000}

InitHint ==
  /\ InitWith({[apiToken |-> Token]}, {})
  /\ probe \in {[of |-> "response", response |-> r, now |-> t] :
                  r \in HintResponses, t \in HintTimes}
              \cup {[of |-> "fault", fault |-> f] : f \in {JsError("Network error"), NonError("boom")}}

\* the executor builds the Failure of a response that is not ok
BuildsHttpFailure ==
  /\ probe.of = "response"
  /\ ~Has(probe, "failure")
  /\ probe' = Spread(probe,
       [failure |-> IF kind = "legacy"
                    THEN CoreHttpError(probe.response, "/categories", "GET", probe.now)
                    ELSE HttpError(probe.response, "/categories", "GET", probe.now)])
  /\ UNCHANGED <<sent, kind, config, client, req, pc, attempt, lastError, resp, timers,
                 invocations, delays, hist, result>>

\* the legacy executor builds the Failure of a rejected fetch
BuildsFaultFailure ==
  /\ probe.of = "fault"
  /\ kind = "legacy"
  /\ ~Has(probe, "failure")
  /\ probe' = Spread(probe, [failure |-> CoreFetchCatch(probe.fault, "/categories", "GET")])
  /\ UNCHANGED <<sent, kind, config, client, req, pc, attempt, lastError, resp, timers,
                 invocations, delays, hist, result>>

NextHint == BuildsHttpFailure \/ BuildsFaultFailure

SpecHint == InitHint /\ [][NextHint]_vars

----------------------------------------------------------------------------
(* The constructors on their own: every shape of supplied configuration *)

CtorTokens == {<<>>, <<" ", " ">>, Token}

CtorTimeouts == {0 - 1, 0, 5000}

CtorRetries == {0 - 1, 0, 2}

CtorRetryDelays == {0 - 1, 0, 100}

\* MarvinClientConfig values: each of the four fields left out or supplied
CtorConfigs ==
  {Spread(Spread(t, m), Spread(r, d)) :
     t \in Optional("apiToken", CtorTokens), m \in Optional("timeout", CtorTimeouts),
     r \in Optional("retries", CtorRetries), d \in Optional("retryDelay", CtorRetryDelays)}

InitCtor == InitWith(CtorConfigs, {}) /\ probe = NoProbe

SpecCtor == InitCtor /\ [][Construct]_vars

----------------------------------------------------------------------------
(* The predicates of MarvinError on their own *)

\* largest status of the errors examined
MaxStatus == 600

\* how many times the predicates of one error are called
MaxAsks == 2

\* MarvinError instances of every status, with and without a retry hint
ProbeErrors ==
  {MarvinError("m", s, "t", "/e", "GET", h) : s \in 0..MaxStatus, h \in {{}, {2000}}}

InitErr ==
  /\ InitWith({[apiToken |-> Token]}, {})
  /\ probe \in {[of |-> "MarvinError", error |-> e, answers |-> <<>>] : e \in ProbeErrors}

\* error.isClientError(), error.isServerError(), error.isRetryable()
AskPredicates ==
  /\ probe.of = "MarvinError"
  /\ Len(probe.answers) < MaxAsks
  /\ probe' = [probe EXCEPT !.answers =
                 Append(@, [isClientError |-> isClientError(probe.error),
                            isServerError |-> isServerError(probe.error),
                            isRetryable |-> isRetryable(probe.error)])]
  /\ UNCHANGED <<sent, kind, config, client, req, pc, attempt, lastError, resp, timers,
                 invocations, delays, hist, result>>

SpecErr == InitErr /\ [][AskPredicates]_vars

----------------------------------------------------------------------------
(* Vocabulary of the properties *)

Ready == client.state = "ready"

Done(c) == pc[c] = "done"

Rejected(c) == result[c].state = "rejected"

Resolved(c) == result[c].state = "resolved"

\* the message of a Failure built from a response
HttpMessage(response) ==
  "HTTP " \o ToString(response.status) \o ": " \o response.statusText

\* e is the Failure built from response for call c
IsFailureOf(e, response, c) ==
  /\ IsMarvinError(e)
  /\ e.status = response.status
  /\ e.statusText = response.statusText
  /\ e.message = HttpMessage(response)
  /\ e.endpoint = req[c].endpoint
  /\ e.method = MethodOf(req[c].options)

IsResponse(entry) == entry.kind = "response"

\* a response with a status in 400..499 other than 429
IsClientErrorResponse(entry) ==
  /\ IsResponse(entry)
  /\ entry.response.status \in 400..499
  /\ entry.response.status # 429

\* a response with a status in 500..599
IsServerErrorResponse(entry) ==
  IsResponse(entry) /\ entry.response.status \in 500..599

\* attempt i (counted from 1) ended the call: nothing was scheduled or invoked after it
EndedAt(c, i) ==
  /\ Done(c)
  /\ Len(hist[c]) = i
  /\ invocations[c] = i
  /\ Len(delays[c]) = i - 1

----------------------------------------------------------------------------
(* C1 *)

----------------------------------------------------------------------------
(* C2 *)

AllServerErrors(c) ==
  /\ Len(hist[c]) >= 1
  /\ \A i \in 1..Len(hist[c]) : IsServerErrorResponse(hist[c][i])

----------------------------------------------------------------------------
(* C3 *)

IsParseThrow(entry) == entry.kind = "parseThrow"

\* the exponential backoff retryDelay * 2^a after attempt a, a = i - 1
Backoff(i) == client.retryDelay * 2^(i - 1)

\* attempt i (counted from 1) was followed by a delay and did not end the call
RetriedAfter(c, i) ==
  /\ Len(delays[c]) >= i
  /\ Done(c) => Len(hist[c]) > i

----------------------------------------------------------------------------
(* C4 *)

\* a status the retry policy names retryable: 5xx, 429, or 0 (transport fault)
IsRetryableStatus(s) == s >= 500 \/ s = 429 \/ s = 0

\* the attempt failed with a retryable failure
IsRetryableFailure(entry) ==
  \/ IsResponse(entry) /\ IsRetryableStatus(entry.response.status)
  \/ entry.kind = "reject" /\ IsMarvinError(entry.fault) /\ IsRetryableStatus(entry.fault.status)
  \/ entry.kind = "reject" /\ ~IsMarvinError(entry.fault)
  \/ entry.kind = "timeout"

AllRetryableBefore(c, n) == \A i \in 1..(n - 1) : IsRetryableFailure(hist[c][i])

\* C4: after k retryable failures, k <= retries, the call is still running
\* (k delays scheduled, attempt k invoked or about to be); and when attempt k
\* then returns a 2xx response whose parser succeeds, the call resolves with
\* the parser's output after exactly k+1 invocations and k delays.
C4_SuccessAfterRetries ==
  \A c \in Calls :
    LET n == Len(hist[c]) IN
      /\ (n >= 1 /\ AllRetryableBefore(c, n + 1) /\ n <= client.retries) =>
            /\ ~Done(c)
            /\ Len(delays[c]) = n
            /\ invocations[c] = IF pc[c] = "delaying" THEN n ELSE n + 1
      /\ (n >= 1 /\ AllRetryableBefore(c, n) /\ hist[c][n].kind = "parsed") =>
            /\ EndedAt(c, n)
            /\ Resolved(c)
            /\ result[c].value = hist[c][n].value

\* responses 500, 500, 200 with retries 3 and retryDelay 100: three
\* invocations, delays 100 and 200, the parsed body returned
C4_Witness ==
  \E c \in Calls :
    /\ Ready
    /\ client.retries = 3
    /\ client.retryDelay = 100
    /\ Len(hist[c]) = 3
    /\ IsResponse(hist[c][1]) /\ hist[c][1].response.status = 500
    /\ IsResponse(hist[c][2]) /\ hist[c][2].response.status = 500
    /\ hist[c][3].kind = "parsed"
    /\ Resolved(c)
    /\ invocations[c] = 3
    /\ delays[c] = <<100, 200>>

----------------------------------------------------------------------------
(* C5 *)

\* the attempt's candidate Failure carries no retry hint
HasNoHint(entry) ==
  \/ IsResponse(entry) /\ ~Has(entry.response.headers, "retry-after")
  \/ entry.kind = "reject" /\ ~Has(entry.fault, "retryAfterMs")
  \/ entry.kind \in {"timeout", "parseThrow"}

\* C5: in both executors the delay scheduled after a failed attempt a whose
\* candidate carries no retry hint is exactly retryDelay * 2^a; so a call that
\* exhausts its retries against hintless 5xx responses schedules exactly the
\* delays retryDelay * 2^0 .. retryDelay * 2^(retries-1) ([100, 200, 400] for
\* retries 3, retryDelay 100).
C5_ExponentialBackoff ==
  \A c \in Calls :
    /\ \A i \in 1..Len(delays[c]) :
         HasNoHint(hist[c][i]) => delays[c][i] = client.retryDelay * 2^(i - 1)
    /\ (Done(c) /\ AllServerErrors(c) /\ \A i \in 1..Len(hist[c]) : HasNoHint(hist[c][i])) =>
         delays[c] = [i \in 1..client.retries |-> client.retryDelay * 2^(i - 1)]

\* persistent hintless 500s, retries 3, retryDelay 100: delays [100, 200, 400]
C5_Witness ==
  \E c \in Calls :
    /\ Ready
    /\ client.retries = 3
    /\ client.retryDelay = 100
    /\ Done(c)
    /\ AllServerErrors(c)
    /\ \A i \in 1..Len(hist[c]) : HasNoHint(hist[c][i])
    /\ delays[c] = <<100, 200, 400>>

----------------------------------------------------------------------------
(* C6, C7 *)

\* the retry hint of the attempt's candidate Failure: {} when it has none.
\* From a response it is the parsed Retry-After header; a MarvinError thrown by
\* the transport brings its own retryAfterMs.
HintOf(entry) ==
  IF IsResponse(entry)
  THEN parseRetryAfter(HeadersGet(entry.response, "retry-after"), entry.now)
  ELSE IF entry.kind = "reject" /\ Has(entry.fault, "retryAfterMs")
       THEN {entry.fault.retryAfterMs}
       ELSE {}

HasHeader(entry, chars) ==
  /\ IsResponse(entry)
  /\ Has(entry.response.headers, "retry-after")
  /\ entry.response.headers["retry-after"] = chars

\* C6: in the legacy executor the delay after a retried attempt whose
\* candidate carries a retry hint is the hint exactly, for every hint >= 0
\* including 0, and not the exponential backoff; Retry-After "2" gives 2000 ms.
C6_LegacyHonoursHint ==
  \A c \in Calls : \A i \in 1..Len(delays[c]) :
    kind = "legacy" =>
      /\ HintOf(hist[c][i]) # {} => delays[c][i] \in HintOf(hist[c][i])
      /\ HasHeader(hist[c][i], <<"2">>) => delays[c][i] = 2000
      /\ HasHeader(hist[c][i], <<"0">>) => delays[c][i] = 0

\* legacy: a 429 with Retry-After "2" then a 429 with Retry-After "0": delays 2000, 0
C6_Witness ==
  \E c \in Calls :
    /\ kind = "legacy"
    /\ Len(delays[c]) = 2
    /\ HasHeader(hist[c][1], <<"2">>) /\ hist[c][1].response.status = 429
    /\ HasHeader(hist[c][2], <<"0">>)
    /\ delays[c] = <<2000, 0>>

\* C7 as stated: in HttpClient the delay after a retried 5xx or 429 response
\* that carries a valid Retry-After header is the parsed hint exactly, for
\* every hint >= 0 including 0.
C7_Original ==
  \A c \in Calls : \A i \in 1..Len(delays[c]) :
    (/\ kind = "http"
     /\ IsResponse(hist[c][i])
     /\ IsRetryableStatus(hist[c][i].response.status)
     /\ HintOf(hist[c][i]) # {}) =>
      delays[c][i] \in HintOf(hist[c][i])

----------------------------------------------------------------------------
(* C8 *)

Is429(entry) == IsResponse(entry) /\ entry.response.status = 429

----------------------------------------------------------------------------
(* C9 *)

\* the injected fetch threw something that is not a MarvinError
IsTransportRejection(entry) == entry.kind = "reject" /\ ~IsMarvinError(entry.fault)

IsHintlessServerError(entry) == IsServerErrorResponse(entry) /\ HasNoHint(entry)

\* the treatment C9 claims for both kinds of attempt: retried iff
\* attempt < retries, after retryDelay * 2^attempt
RetriedWithBackoffOrLast(c, i) ==
  IF i <= client.retries
  THEN RetriedAfter(c, i) /\ delays[c][i] = Backoff(i)
  ELSE EndedAt(c, client.retries + 1) /\ Rejected(c)

\* C9: in both executors a transport rejection gets the retry decision and
\* the delay of a hintless 5xx response at the same attempt: retried iff
\* attempt < retries, after retryDelay * 2^attempt; the rejection that
\* exhausts the retries fails the call with the thrown Error's message, after
\* retries+1 invocations.
C9_RejectionLikeServerError ==
  \A c \in Calls : \A i \in 1..Len(hist[c]) :
    /\ (IsTransportRejection(hist[c][i]) \/ IsHintlessServerError(hist[c][i])) =>
          RetriedWithBackoffOrLast(c, i)
    /\ (IsTransportRejection(hist[c][i]) /\ i = client.retries + 1
          /\ hist[c][i].fault.kind = "Error") =>
          result[c].error.message = hist[c][i].fault.message

\* retries 3 and four rejections with Error('Network error'): four
\* invocations, delays 100, 200, 400, the call fails with 'Network error'
C9_Witness ==
  \E c \in Calls :
    /\ Ready
    /\ client.retries = 3
    /\ Len(hist[c]) = 4
    /\ \A i \in 1..4 : hist[c][i] = [kind |-> "reject", fault |-> JsError("Network error")]
    /\ invocations[c] = 4
    /\ delays[c] = <<100, 200, 400>>
    /\ Rejected(c)
    /\ result[c].error.message = "Network error"

----------------------------------------------------------------------------
(* C10 *)

\* C10: whatever made a legacy call reject (a response that is not ok, a
\* rejected fetch, a fired timer, a throwing parser), the caller gets a
\* MarvinError.
C10_LegacyRejectsWithMarvinError ==
  \A c \in Calls :
    (kind = "legacy" /\ Rejected(c)) => IsMarvinError(result[c].error)

\* legacy, retries 1: fetch rejects with a non-Error value, then the parser
\* throws; the caller gets a status-0 MarvinError
C10_Witness ==
  \E c \in Calls :
    /\ kind = "legacy"
    /\ Len(hist[c]) = 2
    /\ hist[c][1].kind = "reject" /\ hist[c][1].fault.kind = "NonError"
    /\ IsParseThrow(hist[c][2])
    /\ Rejected(c)
    /\ IsMarvinError(result[c].error)
    /\ result[c].error.status = 0

----------------------------------------------------------------------------
(* C11 *)

\* the entry records a fetch that rejected or was aborted by its timer
IsTransportFault(entry) == entry.kind = "reject" \/ entry.kind = "timeout"

\* C11 as stated: every rejection of an HttpClient call reaches the caller as
\* a MarvinError naming the call's endpoint and method, and a transport
\* rejection that exhausts the retries surfaces as a MarvinError of status 0.
C11_Original ==
  \A c \in Calls :
    (kind = "http" /\ Rejected(c)) =>
       /\ IsMarvinError(result[c].error)
       /\ (IsTransportFault(hist[c][Len(hist[c])])
             /\ ~(hist[c][Len(hist[c])].kind = "reject"
                    /\ IsMarvinError(hist[c][Len(hist[c])].fault))) =>
            result[c].error.status = 0

----------------------------------------------------------------------------
(* C12 *)

\* the timers an executor that releases every settled attempt's timer has
\* armed: the one of the attempt whose fetch is pending, and no other
OnlyPendingAttemptArmed(c) ==
  timers[c] = IF pc[c] = "fetching" THEN {attempt[c]} ELSE {}

\* C12: in the legacy executor the only timer ever armed for a call is the
\* one of the attempt whose fetch is pending: once the attempt has settled
\* (2xx, non-2xx, rejected, aborted by the timer) its timer is released, so
\* at most one timer is armed per call and none once the call has ended.
C12_LegacyTimerReleased ==
  \A c \in Calls : kind = "legacy" => OnlyPendingAttemptArmed(c)

\* legacy, retries 3: the first attempt is aborted by its timer, the second
\* rejects, the third gets a 500, the fourth a 2xx that parses; no timer is
\* armed when the call has resolved
C12_Witness ==
  \E c \in Calls :
    /\ kind = "legacy"
    /\ Len(hist[c]) = 4
    /\ hist[c][1].kind = "timeout"
    /\ hist[c][2].kind = "reject"
    /\ IsServerErrorResponse(hist[c][3])
    /\ hist[c][4].kind = "parsed"
    /\ Resolved(c)
    /\ timers[c] = {}

----------------------------------------------------------------------------
(* C13 *)

\* C13 as stated: in HttpClient too the timer of a settled attempt is
\* released before the next attempt starts or the call ends, so no timer is
\* pending once the call has resolved or rejected.
C13_Original ==
  \A c \in Calls : kind = "http" => OnlyPendingAttemptArmed(c)

----------------------------------------------------------------------------
(* C14 *)

\* C14 as stated: in both executors, when the timer fires while the fetch is
\* pending the candidate Failure is a MarvinError of status 0, and the attempt
\* is retried after retryDelay * 2^attempt while attempt < retries and ends
\* the call when attempt = retries.
C14_Original ==
  \A c \in Calls : \A i \in 1..Len(hist[c]) :
    hist[c][i].kind = "timeout" =>
      /\ RetriedWithBackoffOrLast(c, i)
      /\ i = Len(hist[c]) =>
           (IsMarvinError(lastError[c]) /\ lastError[c].status = 0)

----------------------------------------------------------------------------
(* C15 *)

\* the configuration supplies field f with a value that is at most top
SuppliedAtMost(f, top) == Has(config, f) /\ config[f] <= top

\* C15 as stated: in both executors construction fails when the supplied
\* timeout is <= 0, the supplied retries is < 0, the supplied retryDelay is
\* <= 0 or the token is missing or blank; so every executor that exists has
\* timeout > 0, retries >= 0, retryDelay > 0 and a token that is not blank.
C15_Original ==
  client.state # "none" =>
    /\ (\/ SuppliedAtMost("timeout", 0)
        \/ SuppliedAtMost("retries", 0 - 1)
        \/ SuppliedAtMost("retryDelay", 0)
        \/ TokenMissing(config)) => client.state = "threw"
    /\ Ready => /\ client.timeout > 0
                /\ client.retries >= 0
                /\ client.retryDelay > 0
                /\ ~TokenMissing(client)

----------------------------------------------------------------------------
(* C17 *)

\* C17: for every MarvinError of status s >= 0, isClientError() is true iff
\* 400 <= s < 500, isServerError() iff s >= 500 and isRetryable() iff
\* s >= 500 or s = 0; the answers are functions of the status alone (the
\* retry hint and the other fields do not matter) and calling the predicates
\* again gives the same answers.
C17_PredicatesFollowStatus ==
  probe.of = "MarvinError" =>
    \A i \in 1..Len(probe.answers) :
      LET s == probe.error.status
          answer == probe.answers[i]
      IN /\ answer.isClientError = (400 <= s /\ s < 500)
         /\ answer.isServerError = (s >= 500)
         /\ answer.isRetryable = (s >= 500 \/ s = 0)

\* the predicates of a MarvinError of status 500 carrying a retry hint were
\* called twice: not a client error, a server error, retryable, both times
C17_Witness ==
  /\ probe.of = "MarvinError"
  /\ probe.error.status = 500
  /\ Has(probe.error, "retryAfterMs")
  /\ Len(probe.answers) = 2
  /\ \A i \in 1..2 : probe.answers[i] = [isClientError |-> FALSE,
                                         isServerError |-> TRUE,
                                         isRetryable |-> TRUE]

----------------------------------------------------------------------------
(* C16 *)

\* the last attempt of call c that settled
LastSettled(c) == hist[c][Len(hist[c])]

\* what the fetch of the entry rejected with (the abort Error for a fired timer)
FaultOf(entry) == IF entry.kind = "timeout" THEN AbortError ELSE entry.fault

\* e is a status-0 Failure of call c with this message and status text
IsFaultFailure(e, c, message, statusText) ==
  /\ IsMarvinError(e)
  /\ e.status = 0
  /\ e.statusText = statusText
  /\ e.message = message
  /\ e.endpoint = req[c].endpoint
  /\ e.method = MethodOf(req[c].options)
  /\ ~Has(e, "retryAfterMs")

\* C16: the Failure an executor builds from a response that is not 2xx has
\* the response's status and statusText, the call's endpoint and method and
\* the message 'HTTP <status>: <statusText>'; the Failure the legacy executor
\* builds from a rejected fetch has status 0 and either statusText
\* 'Network Error' with the thrown Error's message, or, for a thrown value
\* that is not an Error, statusText 'Unknown Error' and message 'Unknown error'.
C16_FailureFields ==
  \A c \in Calls :
    Len(hist[c]) > 0 =>
      LET entry == LastSettled(c)
          failure == lastError[c]
      IN /\ IsResponse(entry) => IsFailureOf(failure, entry.response, c)
         /\ (kind = "legacy" /\ IsTransportFault(entry)) =>
              IF FaultOf(entry).kind = "Error"
              THEN IsFaultFailure(failure, c, FaultOf(entry).message, "Network Error")
              ELSE FaultOf(entry).kind = "NonError" =>
                     IsFaultFailure(failure, c, "Unknown error", "Unknown Error")

\* legacy, retries 1: a 503 and then a fetch rejecting with a value that is
\* not an Error; the call fails with the 'Unknown Error' Failure
C16_Witness ==
  \E c \in Calls :
    /\ kind = "legacy"
    /\ Len(hist[c]) = 2
    /\ IsResponse(hist[c][1]) /\ hist[c][1].response.status = 503
    /\ hist[c][2].kind = "reject" /\ hist[c][2].fault.kind = "NonError"
    /\ Rejected(c)
    /\ result[c].error.statusText = "Unknown Error"
    /\ result[c].error.message = "Unknown error"
    /\ result[c].error.status = 0

----------------------------------------------------------------------------
(* C19 *)

\* the injected fetch rejected with a value that is already a MarvinError
IsThrownFailure(entry) == entry.kind = "reject" /\ IsMarvinError(entry.fault)

\* C19: in both executors, when the fetch rejects with a MarvinError, that
\* same value is the candidate (status, message and retry hint as thrown, not
\* wrapped as status 0) and the retry decision follows its status: status
\* 4xx other than 429 ends the call at once with that value; status 5xx or
\* 429 is retried while attempt < retries and ends the call with that value
\* when attempt = retries.
C19_ThrownFailureKept ==
  \A c \in Calls : \A i \in 1..Len(hist[c]) :
    IsThrownFailure(hist[c][i]) =>
      LET thrown == hist[c][i].fault
      IN /\ i = Len(hist[c]) => lastError[c] = thrown
         /\ IF isClientError(thrown) /\ thrown.status # 429
            THEN EndedAt(c, i) /\ Rejected(c) /\ result[c].error = thrown
            ELSE IF i <= client.retries
                 THEN RetriedAfter(c, i)
                 ELSE /\ EndedAt(c, client.retries + 1)
                      /\ Rejected(c)
                      /\ result[c].error = thrown

\* retries 3: the fetch rejects with the 502 MarvinError, is retried after
\* 100 ms, then rejects with the 404 MarvinError, which ends the call
C19_Witness ==
  \E c \in Calls :
    /\ Ready
    /\ client.retries = 3
    /\ Len(hist[c]) = 2
    /\ IsThrownFailure(hist[c][1]) /\ hist[c][1].fault.status = 502
    /\ IsThrownFailure(hist[c][2]) /\ hist[c][2].fault.status = 404
    /\ invocations[c] = 2
    /\ delays[c] = <<100>>
    /\ Rejected(c)
    /\ result[c].error = hist[c][2].fault
    /\ result[c].error.message = "Custom client error"

----------------------------------------------------------------------------
(* C20 *)

\* how getTrackedItem() settles once its GET /trackedItem has settled
TrackedItem(c) == getTrackedItem(result[c])

\* C20: in both clients getTrackedItem() resolves to the parsed item when the
\* GET resolves, resolves to null when the GET fails with an Error whose
\* message is 'Unexpected end of JSON input' (so whenever the call ended on a
\* 2xx response whose body the parser rejected as empty), and rejects with
\* the GET's own error, unchanged, for every other failure.
C20_TrackedItemOrNull ==
  \A c \in Calls :
    (Done(c) /\ req[c].endpoint = "/trackedItem") =>
      /\ Resolved(c) => TrackedItem(c) = [state |-> "resolved", value |-> LastSettled(c).value]
      /\ Rejected(c) =>
           IF \/ IsParseThrow(LastSettled(c))
              \/ result[c].error.message = "Unexpected end of JSON input"
           THEN TrackedItem(c) = [state |-> "resolved", value |-> Null]
           ELSE TrackedItem(c) = [state |-> "rejected", error |-> result[c].error]

\* retries 1: a 500 and then a 2xx with an empty body; the GET fails with
\* 'Unexpected end of JSON input' and getTrackedItem() resolves to null
C20_Witness ==
  \E c \in Calls :
    /\ Len(hist[c]) = 2
    /\ IsServerErrorResponse(hist[c][1])
    /\ IsParseThrow(hist[c][2])
    /\ Rejected(c)
    /\ TrackedItem(c) = [state |-> "resolved", value |-> Null]

----------------------------------------------------------------------------
(* C18 *)

\* 1 if the condition holds, else 0
Count(condition) == IF condition THEN 1 ELSE 0

\* the error the executor derives from the settled attempt entry of call c
ErrorOf(c, entry) ==
  LET endpoint == req[c].endpoint
      method == MethodOf(req[c].options)
  IN IF kind = "legacy"
     THEN CASE IsResponse(entry) -> CoreHttpError(entry.response, endpoint, method, entry.now)
            [] IsTransportFault(entry) -> CoreFetchCatch(FaultOf(entry), endpoint, method)
            [] IsParseThrow(entry) -> toMarvinError(entry.fault, endpoint, method)
     ELSE CASE IsResponse(entry) -> HttpError(entry.response, endpoint, method, entry.now)
            [] IsTransportFault(entry) -> AsError(FaultOf(entry))
            [] IsParseThrow(entry) -> AsError(entry.fault)

\* the delay the executor waits after the failed attempt i of call c
DelayAfter(c, i) ==
  IF kind = "legacy"
  THEN waitBeforeRetry(client.retryDelay, i - 1, ErrorOf(c, hist[c][i]))
  ELSE IF IsResponse(hist[c][i])
       THEN HttpRetryAfter(client.retryDelay, i - 1, ErrorOf(c, hist[c][i]))
       ELSE HttpRetryDelay(client.retryDelay, i - 1)

\* everything call c holds is what its own settled attempts, and nothing
\* else, give: the counter, the invocations, the delays, the last error and
\* the outcome
OwnOutcomesOnly(c) ==
  LET n == Len(hist[c])
  IN /\ invocations[c] = n + Count(pc[c] \in {"fetching", "parsing"})
     /\ Len(delays[c]) = n - Count(Done(c))
     /\ attempt[c] = Len(delays[c]) - Count(pc[c] = "delaying")
     /\ \A i \in 1..Len(delays[c]) : delays[c][i] = DelayAfter(c, i)
     /\ \A i \in 1..(n - 1) : hist[c][i].kind # "parsed"
     /\ lastError[c] =
          IF n = 0 THEN NoError
          ELSE IF hist[c][n].kind # "parsed" THEN ErrorOf(c, hist[c][n])
          ELSE IF n = 1 THEN NoError
          ELSE ErrorOf(c, hist[c][n - 1])
     /\ result[c] =
          IF ~Done(c) THEN Pending
          ELSE IF hist[c][n].kind = "parsed"
               THEN [state |-> "resolved", value |-> hist[c][n].value]
               ELSE [state |-> "rejected", error |-> ErrorOf(c, hist[c][n])]

\* C18: with two calls in flight on one executor, in any interleaving of
\* their steps, each call's attempt counter, last error, number of
\* invocations, delay sequence and outcome are those its own settled attempts
\* determine; what the other call does has no part in them.
C18_CallsDoNotInterfere ==
  \A c \in Calls : pc[c] \notin {"off", "idle"} => OwnOutcomesOnly(c)

\* both calls are in flight: call a waits out the delay after its first
\* attempt got a 500, call b, whose first attempt was rejected, has its second
\* fetch pending; each has its own counter and its own last error
C18_Witness ==
  /\ pc["a"] = "delaying" /\ pc["b"] = "fetching"
  /\ attempt["a"] = 0 /\ attempt["b"] = 1
  /\ Len(hist["a"]) = 1 /\ IsServerErrorResponse(hist["a"][1])
  /\ Len(hist["b"]) = 1 /\ hist["b"][1].kind = "reject"
  /\ invocations["a"] = 1 /\ invocations["b"] = 2
  /\ lastError["a"] # lastError["b"]

----------------------------------------------------------------------------
(* C21 *)

\* the positions of list whose item is (wanted = TRUE) or is not a project
PositionsOf(list, wanted) == {i \in 1..Len(list) : IsProject(list[i]) = wanted}

\* the k-th smallest member of a set of positions
NthOf(positions, k) ==
  CHOOSE i \in positions : Cardinality({j \in positions : j <= i}) = k

\* out holds exactly the items of list at positions, in the order of the list
IsSelection(out, list, positions) ==
  /\ Len(out) = Cardinality(positions)
  /\ \A k \in 1..Len(out) : out[k] = list[NthOf(positions, k)]

\* C21: for any list getCategories returns, getOnlyProjects gives exactly the
\* items whose type is 'project' and getOnlyCategories exactly the others, each
\* in the order of the list; every position of the list is in exactly one of
\* the two results.
C21_HelpersPartitionTheList ==
  probe.of = "categories" =>
    /\ Has(probe, "projects") =>
         IsSelection(probe.projects, probe.list, PositionsOf(probe.list, TRUE))
    /\ Has(probe, "categories") =>
         IsSelection(probe.categories, probe.list, PositionsOf(probe.list, FALSE))
    /\ (Has(probe, "projects") /\ Has(probe, "categories")) =>
         /\ Len(probe.projects) + Len(probe.categories) = Len(probe.list)
         /\ \A i \in 1..Len(probe.projects) : \A j \in 1..Len(probe.categories) :
              probe.projects[i] # probe.categories[j]

\* the list [untyped x, project y, typed category x]: the projects are [the
\* project y], the categories [untyped x, typed category x]
C21_Witness ==
  /\ probe.of = "categories"
  /\ probe.list = <<[_id |-> "x"], [_id |-> "y", type |-> "project"],
                    [_id |-> "x", type |-> "category"]>>
  /\ Has(probe, "projects") /\ Has(probe, "categories")
  /\ probe.projects = <<[_id |-> "y", type |-> "project"]>>
  /\ probe.categories = <<[_id |-> "x"], [_id |-> "x", type |-> "category"]>>

----------------------------------------------------------------------------
(* C22 *)

\* the entry is a candidate that is a client error (400..499) other than 429:
\* built from a response, or a MarvinError the fetch rejected with
IsClientErrorCandidate(entry) ==
  \/ IsClientErrorResponse(entry)
  \/ /\ entry.kind = "reject"
     /\ IsMarvinError(entry.fault)
     /\ entry.fault.status \in 400..499
     /\ entry.fault.status # 429

\* C22 as stated: in both executors a failed attempt a < retries is followed
\* by attempt a+1 unless its candidate is a client error other than 429; a
\* response whose status is outside 400..599, such as a 302, is retried.
C22_Original ==
  \A c \in Calls : \A i \in 1..Len(hist[c]) :
    (/\ hist[c][i].kind # "parsed"
     /\ ~IsClientErrorCandidate(hist[c][i])
     /\ i <= client.retries) => RetriedAfter(c, i)

----------------------------------------------------------------------------
(* C23 *)

\* the transport invocations of call c that have not settled
InFlight(c) == invocations[c] - Len(hist[c])

\* C23: within one call the attempts are sequential.  At most one transport
\* invocation is unsettled, and only while the call waits for the fetch or
\* the parser of that attempt; the delays scheduled so far are one per
\* invocation but the last, plus the one being waited out, so consecutive
\* invocations are separated by exactly one delay and no delay follows the
\* attempt that ends the call.
C23_AttemptsAreSequential ==
  \A c \in Calls :
    invocations[c] >= 1 =>
      /\ InFlight(c) = Count(pc[c] \in {"fetching", "parsing"})
      /\ Len(delays[c]) = invocations[c] - 1 + Count(pc[c] = "delaying")
      /\ attempt[c] = invocations[c] - 1
      /\ Done(c) => Len(delays[c]) = Len(hist[c]) - 1

\* retries 3: a 500, a rejected fetch, then a 2xx that parses: three
\* invocations, two delays, nothing in flight and no delay after the success
C23_Witness ==
  \E c \in Calls :
    /\ Len(hist[c]) = 3
    /\ IsServerErrorResponse(hist[c][1])
    /\ hist[c][2].kind = "reject"
    /\ hist[c][3].kind = "parsed"
    /\ Resolved(c)
    /\ invocations[c] = 3
    /\ delays[c] = <<100, 200>>
    /\ InFlight(c) = 0

----------------------------------------------------------------------------
(* C24 *)

\* call c has started and has not ended
InProgress(c) == pc[c] \in {"fetching", "parsing", "delaying"}

\* C24: provided every pending fetch settles or is aborted by its timer,
\* every pending parser settles and every pending delay elapses, a call that
\* has started eventually resolves or rejects, whatever the outcomes of its
\* attempts; and in no reachable state has a call made more than retries+1
\* transport invocations.
C24_EveryCallEnds ==
  /\ [](\A c \in Calls : Ready => invocations[c] <= client.retries + 1)
  /\ \A c \in Calls : InProgress(c) ~> Done(c)

\* retries 3: an aborted fetch, a parser fault, a 302 or 503, a rejected
\* fetch: the call has ended after exactly retries+1 invocations
C24_Witness ==
  \E c \in Calls :
    /\ Ready
    /\ client.retries = 3
    /\ Len(hist[c]) = 4
    /\ hist[c][1].kind = "timeout"
    /\ IsParseThrow(hist[c][2])
    /\ IsResponse(hist[c][3])
    /\ hist[c][4].kind = "reject"
    /\ Done(c)
    /\ Rejected(c)
    /\ invocations[c] = 4

----------------------------------------------------------------------------
(* C25 *)

\* the messages of the errors thrown by the statement after the retry loop
FallbackMessages ==
  {"Request failed after all retries", "Request failed after all retry attempts"}

\* C25: an executor that exists has retries >= 0, and then the statement
\* after the retry loop is never reached: the loop counter of a call never
\* passes retries, no call fails with the 'Retry Exhausted' Failure or the
\* 'Request failed after all retry attempts' error, and a call that failed
\* made at least one transport invocation.
C25_FallbackUnreachable ==
  Ready =>
    /\ client.retries >= 0
    /\ \A c \in Calls :
         /\ attempt[c] <= client.retries
         /\ Rejected(c) =>
              /\ invocations[c] >= 1
              /\ result[c].error.message \notin FallbackMessages

\* retries 0: the only attempt fails with a 503 and the call fails from
\* inside the loop, with that Failure, after one invocation
C25_Witness ==
  \E c \in Calls :
    /\ Ready
    /\ client.retries = 0
    /\ Rejected(c)
    /\ attempt[c] = 0
    /\ invocations[c] = 1
    /\ result[c].error.message = "HTTP 503: Service Unavailable"

----------------------------------------------------------------------------
(* C26 *)

\* the transport of the settled attempt returned a response
GotResponse(entry) == entry.kind \in {"response", "parsed", "parseThrow"}

\* no timer of an attempt whose transport returned a response is armed: not
\* while its body is parsed, not afterwards
ResponseTimersReleased(c) ==
  /\ pc[c] = "parsing" => attempt[c] \notin timers[c]
  /\ \A i \in 1..Len(hist[c]) : GotResponse(hist[c][i]) => (i - 1) \notin timers[c]

\* a step taken while the body of call c is parsed either leaves the call's
\* attempt alone or settles it by the parser, never by a timer
OnlyParserSettlesParsing(c) ==
  pc[c] = "parsing" =>
    \/ hist'[c] = hist[c] /\ pc'[c] = "parsing"
    \/ /\ Len(hist'[c]) = Len(hist[c]) + 1
       /\ hist'[c][Len(hist'[c])].kind \in {"parsed", "parseThrow"}

\* C26: in both executors, when the transport returns a response the
\* attempt's timer is released before the parser is invoked or the Failure is
\* built, so it is armed at no later time; and while a body is being parsed
\* no timer firing aborts or fails the attempt: only the parser settles it.
C26_TimerOnlyBoundsTransport ==
  /\ [](\A c \in Calls : ResponseTimersReleased(c))
  /\ [][\A c \in Calls : OnlyParserSettlesParsing(c)]_vars

\* HttpClient: the first fetch rejected and left its timer armed, the second
\* returned a 2xx whose body is being parsed: the armed timer is the first
\* attempt's, the parsed attempt's own timer is released
C26_Witness ==
  \E c \in Calls :
    /\ kind = "http"
    /\ pc[c] = "parsing"
    /\ attempt[c] = 1
    /\ timers[c] = {0}
    /\ hist[c][1].kind = "reject"

----------------------------------------------------------------------------
(* C27 *)

\* the default headers the claim names
ClaimedDefaults ==
  [k \in {"Content-Type", "X-API-Token"} |->
     IF k = "Content-Type" THEN <<"application/json">> ELSE client.apiToken]

\* C27 as stated: in both executors the headers of the fetch are the defaults
\* (Content-Type: application/json, X-API-Token: the token) overridden by the
\* additional headers, overridden in turn by the headers of the request
\* options: the later source wins a key, a key of any source is sent.
C27_Original ==
  (probe.of = "request" /\ Has(probe, "fetched")) =>
    probe.fetched.init.headers =
      Spread(Spread(ClaimedDefaults, probe.request.additionalHeaders),
             OptionHeaders(probe.request.options))

----------------------------------------------------------------------------
(* C29 *)

\* every attempt of call c so far passed to fetch what the first one passed:
\* the URL, baseUrl followed by the endpoint, and the same method, body and
\* headers
SameRequestEveryAttempt(c) ==
  /\ Len(sent[c]) = invocations[c]
  /\ \A i \in 1..Len(sent[c]) :
       /\ sent[c][i] = sent[c][1]
       /\ sent[c][i].url = client.baseUrl \o req[c].endpoint
       /\ MethodOf(sent[c][i].init) = MethodOf(req[c].options)

\* no step changes the fields of an executor that exists
ConfigurationKept == client.state = "ready" => client' = client

\* C29: no call changes the executor's configuration, and every attempt of a
\* call sends the same request as its first attempt (same URL, method, body,
\* headers); only the abort signal, which is not part of what is compared,
\* differs between attempts.
C29_SameRequestSameConfiguration ==
  /\ [](\A c \in Calls : SameRequestEveryAttempt(c))
  /\ [][ConfigurationKept]_vars

\* retries 3: four failed attempts, four identical requests to
\* https://serv.amazingmarvin.com/api/trackedItem
C29_Witness ==
  \E c \in Calls :
    /\ Ready
    /\ Done(c)
    /\ invocations[c] = 4
    /\ Len(sent[c]) = 4
    /\ sent[c][4] = sent[c][1]
    /\ sent[c][4].url = "https://serv.amazingmarvin.com/api/trackedItem"
    /\ client.retries = 3

----------------------------------------------------------------------------
(* C28 *)

\* the retryAfterMs the claim gives a Failure built from response at time now:
\* {} for none.  Seconds n give max(0, floor(n * 1000)), a date gives
\* max(0, date - now), a missing, empty or unparseable header gives none.
ClaimedHint(response, now) ==
  IF ~Has(response.headers, "retry-after") THEN {}
  ELSE LET v == response.headers["retry-after"]
       IN CASE v = <<>> -> {}
            [] v = <<"0">> -> {0}
            [] v = <<"3">> -> {3000}
            [] v = <<"0", "3">> -> {3000}
            [] v = <<"-", "3">> -> {0}
            [] v = <<"-", "0">> -> {0}
            [] v = <<"+", "3">> -> {3000}
            [] v = <<"s", "o", "o", "n">> -> {}
            [] v = DateAt3s -> {IF now >= 3000 THEN 0 ELSE 3000 - now}
            [] v = DateAtEpoch -> {0}

\* the retryAfterMs of a Failure: {} for none
HintIn(failure) == IF Has(failure, "retryAfterMs") THEN {failure.retryAfterMs} ELSE {}

\* C28: every Failure an executor builds from a response or from a transport
\* fault has status >= 0 and a retryAfterMs that, when present, is >= 0; the
\* retryAfterMs of a Failure built from a response is the one its Retry-After
\* header gives: seconds times 1000 clamped at 0, the time left until an
\* HTTP-date clamped at 0, none for a missing, empty or unparseable header.
C28_HintsAreNeverNegative ==
  (probe.of \in {"response", "fault"} /\ Has(probe, "failure")) =>
    /\ probe.failure.status >= 0
    /\ \A ms \in HintIn(probe.failure) : ms >= 0
    /\ probe.of = "response" => HintIn(probe.failure) = ClaimedHint(probe.response, probe.now)
    /\ probe.of = "fault" => HintIn(probe.failure) = {}

\* a 429 with Retry-After: -3 gives a Failure with retryAfterMs 0
C28_Witness ==
  /\ probe.of = "response"
  /\ probe.response = Response(429, RetryAfter(<<"-", "3">>))
  /\ Has(probe, "failure")
  /\ probe.failure.status = 429
  /\ probe.failure.retryAfterMs = 0

----------------------------------------------------------------------------
(* C30 *)

\* the Failure the legacy executor derives from the settled attempt entry
LegacyErrorOf(c, entry) ==
  LET endpoint == req[c].endpoint
      method == MethodOf(req[c].options)
  IN CASE IsResponse(entry) -> CoreHttpError(entry.response, endpoint, method, entry.now)
       [] IsTransportFault(entry) -> CoreFetchCatch(FaultOf(entry), endpoint, method)
       [] IsParseThrow(entry) -> toMarvinError(entry.fault, endpoint, method)

\* call c has ended with its i-th attempt
EndedWith(c, i) == Done(c) /\ i = Len(hist[c])

\* the i-th settled attempt of call c went as the legacy executor takes the
\* same outcome: the same decision to stop or go on, the same delay when it
\* goes on, the same result or a failure of the same status and message when
\* it stops
AsLegacyTakes(c, i) ==
  LET entry == hist[c][i]
  IN IF entry.kind = "parsed"
     THEN EndedWith(c, i) /\ Resolved(c)
     ELSE LET err == LegacyErrorOf(c, entry)
          IN IF LegacyStops(err, i - 1, client.retries)
             THEN /\ EndedWith(c, i)
                  /\ Rejected(c)
                  /\ Has(result[c].error, "status")
                  /\ result[c].error.status = err.status
                  /\ result[c].error.message = err.message
             ELSE /\ ~EndedWith(c, i)
                  /\ delays[c][i] = waitBeforeRetry(client.retryDelay, i - 1, err)

\* C30 as stated: given the same retries and retryDelay and the same sequence
\* of attempt outcomes, HttpClient performs the transport invocations,
\* schedules the delays and ends in the outcome (same result, or a failure of
\* the same status and message) that the legacy executor does.
C30_Original ==
  \A c \in Calls : \A i \in 1..Len(hist[c]) : kind = "http" => AsLegacyTakes(c, i)

====
